---- MODULE Spec2Model ----
(***************************************************************************)
(* pulp_docker: the Docker Registry v2 handler (app/registry.py), the      *)
(* tag / untag tasks (app/tasks/tag.py, app/tasks/untag.py) and the        *)
(* validation of untag requests (app/serializers.py).                      *)
(*                                                                         *)
(* The database holds a fixed catalogue of manifests and blobs, the table  *)
(* of tag objects and, per repository, the list of its versions.  One      *)
(* registry request is in flight at a time; its handler is a coroutine     *)
(* whose position is pc.  Tasks run atomically (one worker holds the       *)
(* repository's reservation) and may run between any two handler steps.    *)
(***************************************************************************)
EXTENDS Naturals, Sequences, FiniteSets, TLC

VARIABLES
    versions,              \* repository -> sequence of content sets (RepositoryVersion)
    manifest_tags,         \* the ManifestTag table: set of [name, tagged_manifest]
    pc,                    \* position of the request handler
    request,               \* match_info and raw_headers of the request in flight
    repository_version,    \* the RepositoryVersion the distribution serves
    accepted_media_types,  \* list parsed from the Accept headers
    tag,                   \* the Tag the handler resolved, or NoTag
    legacy,                \* child picked by _get_legacy_manifest, or None
    schema,                \* first value returned by _convert_manifest / object to dispatch
    response_headers,      \* headers the handler prepared
    build_calls,           \* calls of Schema1ManifestBuilder.build in this request
    raised,                \* exception the handler ended with, or None
    response               \* the HTTP response

dbVars == <<versions, manifest_tags>>
reqVars == <<pc, request, repository_version, accepted_media_types, tag, legacy,
             schema, response_headers, build_calls, raised, response>>
vars == <<versions, manifest_tags, pc, request, repository_version,
          accepted_media_types, tag, legacy, schema, response_headers,
          build_calls, raised, response>>

None == "None"

(***************************************************************************)
(* Bounds.                                                                 *)
(***************************************************************************)
MaxTasks == 2

(***************************************************************************)
(* pulp_docker.constants.MEDIA_TYPE                                        *)
(***************************************************************************)
MANIFEST_V1 == "application/vnd.docker.distribution.manifest.v1+json"
MANIFEST_V1_SIGNED == "application/vnd.docker.distribution.manifest.v1+prettyjws"
MANIFEST_V2 == "application/vnd.docker.distribution.manifest.v2+json"
MANIFEST_LIST == "application/vnd.docker.distribution.manifest.list.v2+json"
CONFIG_BLOB == "application/vnd.docker.container.image.v1+json"
REGULAR_BLOB == "application/vnd.docker.image.rootfs.diff.tar.gzip"

(***************************************************************************)
(* The content catalogue: what sync has stored.  artifact is the state of  *)
(* the unit's ContentArtifact: "ok" (a local file holding JSON), "missing" *)
(* (remote-only content, no Artifact row), "corrupt" (a local file whose   *)
(* bytes are not JSON).                                                    *)
(***************************************************************************)
Image(mt, cfg, lyrs, art) ==
    [media_type |-> mt, config_blob |-> cfg, layers |-> lyrs, artifact |-> art]

Manifest ==
       ("m_v1"  :> Image(MANIFEST_V1, None, <<>>, "ok"))
    @@ ("m_v1s" :> Image(MANIFEST_V1_SIGNED, None, <<>>, "ok"))
    @@ ("m_v2"  :> Image(MANIFEST_V2, "c_a", <<"sha256:L1", "sha256:L2">>, "ok"))
    @@ ("m_v2b" :> Image(MANIFEST_V2, "c_b", <<"sha256:L1", "sha256:L3">>, "ok"))
    @@ ("m_v2e" :> Image(MANIFEST_V2, "c_a", <<>>, "ok"))
    @@ ("m_v2r" :> Image(MANIFEST_V2, "c_a", <<"sha256:L1">>, "missing"))
    @@ ("m_v2c" :> Image(MANIFEST_V2, "c_r", <<"sha256:L2">>, "ok"))
    @@ ("m_v2j" :> Image(MANIFEST_V2, "c_j", <<"sha256:L3">>, "ok"))
    @@ ("m_v2x" :> Image(MANIFEST_V2, "c_a", <<"sha256:L2">>, "corrupt"))
    @@ ("m_arm" :> Image(MANIFEST_V2, "c_b", <<"sha256:L3", "sha256:L1">>, "ok"))
    @@ ("ml1"   :> Image(MANIFEST_LIST, None, <<>>, "ok"))
    @@ ("ml2"   :> Image(MANIFEST_LIST, None, <<>>, "ok"))
    @@ ("ml3"   :> Image(MANIFEST_LIST, None, <<>>, "ok"))
    @@ ("ml4"   :> Image(MANIFEST_LIST, None, <<>>, "ok"))
    @@ ("ml5"   :> Image(MANIFEST_LIST, None, <<>>, "ok"))
    @@ ("ml6"   :> Image(MANIFEST_LIST, None, <<>>, "missing"))

Manifests == DOMAIN Manifest

Blob ==
       ("c_a" :> [media_type |-> CONFIG_BLOB, artifact |-> "ok", architecture |-> "amd64"])
    @@ ("c_b" :> [media_type |-> CONFIG_BLOB, artifact |-> "ok", architecture |-> "arm"])
    @@ ("c_r" :> [media_type |-> CONFIG_BLOB, artifact |-> "missing", architecture |-> "amd64"])
    @@ ("c_j" :> [media_type |-> CONFIG_BLOB, artifact |-> "corrupt", architecture |-> "amd64"])
    @@ ("L1"  :> [media_type |-> REGULAR_BLOB, artifact |-> "ok", architecture |-> None])
    @@ ("L2"  :> [media_type |-> REGULAR_BLOB, artifact |-> "missing", architecture |-> None])
    @@ ("L3"  :> [media_type |-> REGULAR_BLOB, artifact |-> "ok", architecture |-> None])

Blobs == DOMAIN Blob

\* Content.digest: "sha256:<hex>", here the hash of the unit's own bytes.
Digest(c) == "sha256:" \o c

(***************************************************************************)
(* The ManifestListManifest table, rows in primary-key order.  The field   *)
(* image_manifest holds the manifest list, the field manifest_list the     *)
(* listed child (Manifest.listed_manifests goes from the former to the     *)
(* latter).  m_v2 and m_v2b are listed by several manifest lists.          *)
(***************************************************************************)
Row(l, c, a, o) == [image_manifest |-> l, manifest_list |-> c, architecture |-> a, os |-> o]

ManifestListManifest ==
    << Row("ml1", "m_v2b", "arm", "linux"),
       Row("ml1", "m_v2", "amd64", "linux"),
       Row("ml2", "m_v2", "arm", "linux"),
       Row("ml2", "m_arm", "arm", "linux"),
       Row("ml3", "m_v2b", "amd64", "linux"),
       Row("ml4", "m_arm", "arm", "linux"),
       Row("ml4", "m_v2j", "amd64", "windows"),
       Row("ml5", "m_v1s", "amd64", "linux"),
       Row("ml6", "m_v2r", "amd64", "linux"),
       Row("ml6", "m_v2c", "arm", "linux") >>

RowIds == 1..Len(ManifestListManifest)

(***************************************************************************)
(* Tags.  A tag object is the pair (name, tagged_manifest); the table      *)
(* holds at most one object per pair (get_or_create).                      *)
(***************************************************************************)
MkTag(n, m) == [name |-> n, tagged_manifest |-> m]

NoTag == MkTag(None, None)

Repositories == {"r1", "r2"}

\* Names and manifests the tag / untag tasks are run with.
TaskTagNames == {"latest"}
TaskManifests == {"m_v2", "m_v2b", "m_v1s", "m_v2r"}

InitialTags ==
       ("r1" :> { MkTag("latest", "ml1"), MkTag("v1", "m_v1"), MkTag("v1s", "m_v1s"),
                  MkTag("v2", "m_v2"), MkTag("v2b", "m_v2b"), MkTag("v2e", "m_v2e"),
                  MkTag("v2r", "m_v2r"), MkTag("v2c", "m_v2c"), MkTag("v2j", "m_v2j"),
                  MkTag("v2x", "m_v2x"), MkTag("l2", "ml2"), MkTag("l3", "ml3"),
                  MkTag("l4", "ml4"), MkTag("l5", "ml5"), MkTag("l6", "ml6") })
    @@ ("r2" :> { MkTag("latest", "m_v2b"), MkTag("v1", "m_v1s") })

\* Content units are tagged by kind so that one set holds tags, manifests and blobs.
TagUnit(t) == [kind |-> "Tag", name |-> t.name, ref |-> t.tagged_manifest]
ManifestUnit(m) == [kind |-> "Manifest", ref |-> m]
BlobUnit(b) == [kind |-> "Blob", ref |-> b]

InitialContent ==
       ("r1" :> ({TagUnit(t) : t \in InitialTags["r1"]}
                 \cup {ManifestUnit(m) : m \in Manifests}
                 \cup {BlobUnit(b) : b \in Blobs}))
    @@ ("r2" :> ({TagUnit(t) : t \in InitialTags["r2"]}
                 \cup {ManifestUnit(m) : m \in {"m_v2", "m_v2b", "m_v1s"}}
                 \cup {BlobUnit(b) : b \in {"c_a", "c_b", "L1"}}))

TagsOf(content) == {MkTag(u.name, u.ref) : u \in {c \in content : c.kind = "Tag"}}

\* The latest version of a repository, and its content.
LatestVersion(r) == [repository |-> r, number |-> Len(versions[r])]

NoVersion == [repository |-> None, number |-> 0]

\* repository_version.content
ContentOf(version) == versions[version.repository][version.number]

Latest(r) == ContentOf(LatestVersion(r))

TasksRun == (Len(versions["r1"]) - 1) + (Len(versions["r2"]) - 1)

(***************************************************************************)
(* tasks/tag.py: tag_image                                                 *)
(***************************************************************************)
\* filter(tagged_manifest=manifest) written for exclude(tagged_manifest=manifest).
existing_manifest_tag_list_filter(table, name, manifest) ==
    {t \in table : t.name = name /\ t.tagged_manifest = manifest}

\* ManifestTag.objects.filter(name=tag).exclude(tagged_manifest=manifest), evaluated
\* when remove_content runs, i.e. after get_or_create.
existing_manifest_tag_list(table, name, manifest) ==
    {t \in table : t.name = name /\ t.tagged_manifest # manifest}

\* remove_content that drops every tag of the version, whatever the queryset.
remove_content_every_tag(content, tagset) == {c \in content : c.kind # "Tag"}

\* add_content that adds nothing.
add_content_nothing(content, tagset) == content

\* RepositoryVersion.remove_content / add_content on the version being created.
remove_content(content, tagset) == content \ {TagUnit(t) : t \in tagset}

add_content(content, tagset) == content \cup {TagUnit(t) : t \in tagset}

tag_image(manifest_pk, name, repository_pk) ==
    /\ TasksRun < MaxTasks
    \* manifest._artifacts.all()[0] raises IndexError without a local artifact:
    \* the task fails before it has written anything.
    /\ Manifest[manifest_pk].artifact # "missing"
    /\ LET manifest_tag == MkTag(name, manifest_pk)
           table == manifest_tags \cup {manifest_tag}
           base == Latest(repository_pk)
           new == add_content(
                      remove_content(base,
                          existing_manifest_tag_list(table, name, manifest_pk)),
                      {manifest_tag})
       IN  /\ manifest_tags' = table
           /\ versions' = [versions EXCEPT ![repository_pk] = Append(@, new)]
    /\ UNCHANGED reqVars

TagImage ==
    \E m \in TaskManifests, n \in TaskTagNames, r \in Repositories : tag_image(m, n, r)

(***************************************************************************)
(* tasks/untag.py: untag_image                                             *)
(***************************************************************************)
\* A queryset that matches no tag.
manifest_tag_list_empty(table, name) == {}

\* ManifestTag.objects.filter(name=tag)
manifest_tag_list(table, name) == {t \in table : t.name = name}

untag_image(name, repository_pk) ==
    /\ TasksRun < MaxTasks
    /\ LET base == Latest(repository_pk)
       IN  versions' = [versions EXCEPT ![repository_pk] =
                            Append(@, remove_content(base,
                                          manifest_tag_list(manifest_tags, name)))]
    /\ UNCHANGED <<manifest_tags, reqVars>>

UntagImage ==
    \E n \in TaskTagNames, r \in Repositories : untag_image(n, r)

(***************************************************************************)
(* registry.py: the request and its response                               *)
(***************************************************************************)
\* request.raw_headers: each list is a sequence of <<header, values>>, the values
\* being the comma-separated items of the header line.
RawHeaderLists ==
    { << <<"accept", <<MANIFEST_V2>>>> >>,
      << <<"Accept", <<MANIFEST_V2>>>> >>,
      << <<"Accept", <<MANIFEST_LIST>>>>, <<"User-Agent", <<"docker">>>>,
         <<"Accept", <<MANIFEST_V2, MANIFEST_V1_SIGNED>>>> >> }

RequestTagNames ==
    {t.name : t \in InitialTags["r1"]} \cup TaskTagNames \cup {"absent"}

RequestDigests ==
    {Digest(m) : m \in Manifests} \cup {Digest(b) : b \in Blobs} \cup {"sha256:absent"}

Terminal == {"RESPOND", "NOT_FOUND", "FAULT"}

EmptyHeaders == [h \in {} |-> None]

NoResponse == [status |-> 0, headers |-> EmptyHeaders, body |-> None]

NoRequest == [handler |-> None, path |-> None, tag_name |-> None, digest |-> None,
              raw_headers |-> <<>>]

\* What get_tag hands to a dispatcher: nothing yet, a Manifest (the list's child),
\* the converted text, or the Schema1ManifestBuilder object itself.
NoSchema == [kind |-> None, value |-> None]

\* Only the first accepted media type is looked at.
ContainsFirst(seq, mt) == Len(seq) > 0 /\ seq[1] = mt

\* mt in seq (registry.py lines 162, 245).
Contains(seq, mt) == \E i \in 1..Len(seq) : seq[i] = mt

RECURSIVE get_accepted_media_types(_)
get_accepted_media_types(raw_headers) ==
    IF raw_headers = <<>> THEN <<>>
    ELSE LET header == Head(raw_headers)[1]
             values == Head(raw_headers)[2]
         IN  (IF header = "Accept" THEN values ELSE <<>>)
                 \o get_accepted_media_types(Tail(raw_headers))

\* aiohttp turns PathNotResolved (an HTTPNotFound) into 404 and every other
\* exception that leaves a handler into 500.
StatusOf(exc) == IF exc = "PathNotResolved" THEN 404 ELSE 500

Raise(exc) ==
    /\ raised' = exc
    /\ pc' = IF exc = "PathNotResolved" THEN "NOT_FOUND" ELSE "FAULT"
    /\ response' = [status |-> StatusOf(exc), headers |-> EmptyHeaders, body |-> None]

\* Registry._dispatch: the headers of a streamed file.
_dispatch(path, headers) ==
    [status |-> 200,
     headers |-> ("Content-Type" :> headers["Content-Type"])
              @@ ("Docker-Content-Digest" :> headers["Docker-Content-Digest"])
              @@ ("Docker-Distribution-API-Version" :> "registry/2.0")
              @@ ("Content-Length" :> ("getsize:" \o path))
              @@ ("Content-Disposition" :> ("attachment; filename=" \o path)),
     body |-> "file:" \o path]

\* artifact.file.name of a stored unit.
FileOf(c) == "artifact/" \o c

(***************************************************************************)
(* registry.py: get_tag, resolution (lines 139-151)                        *)
(***************************************************************************)
\* The lookup without pk__in: the tags of that name in the whole table.
TagsNamedAnywhere(content, name) == {t \in manifest_tags : t.name = name}

\* Tag.objects.filter(pk__in=repository_version.content, name=tag_name)
TagsNamed(content, name) == {t \in TagsOf(content) : t.name = name}

GetTagResolve ==
    /\ pc = "IDLE"
    /\ \E path \in Repositories, tag_name \in RequestTagNames, raw \in RawHeaderLists :
        LET version == LatestVersion(path)
            found == TagsNamed(ContentOf(version), tag_name)
        IN  /\ request' = [handler |-> "get_tag", path |-> path, tag_name |-> tag_name,
                           digest |-> None, raw_headers |-> raw]
            /\ repository_version' = version
            /\ accepted_media_types' = get_accepted_media_types(raw)
            /\ legacy' = None
            /\ schema' = NoSchema
            /\ response_headers' = EmptyHeaders
            /\ build_calls' = 0
            /\ IF found = {}
               THEN /\ Raise("PathNotResolved")
                    /\ tag' = NoTag
               ELSE IF Cardinality(found) > 1
               THEN /\ Raise("MultipleObjectsReturned")
                    /\ tag' = NoTag
               ELSE /\ tag' = CHOOSE t \in found : TRUE
                    /\ pc' = "NEGOTIATE"
                    /\ raised' = None
                    /\ response' = NoResponse
    /\ UNCHANGED dbVars

(***************************************************************************)
(* registry.py: get_tag, negotiation (lines 156-169) and the dispatch of   *)
(* _convert_manifest on the media type (lines 235, 241; no branch taken:   *)
(* the function returns None and the unpacking at line 169 raises).        *)
(***************************************************************************)
GetTagNegotiate ==
    /\ pc = "NEGOTIATE"
    /\ LET m == tag.tagged_manifest
           mt == Manifest[m].media_type
       IN  IF mt = MANIFEST_V1
           THEN /\ response_headers' = ("Content-Type" :> MANIFEST_V1_SIGNED)
                                    @@ ("Docker-Content-Digest" :> Digest(m))
                /\ pc' = "DIRECT_DISPATCH"
                /\ UNCHANGED <<raised, response>>
           ELSE IF Contains(accepted_media_types, mt)
           THEN /\ response_headers' = ("Content-Type" :> mt)
                                    @@ ("Docker-Content-Digest" :> Digest(m))
                /\ pc' = "DIRECT_DISPATCH"
                /\ UNCHANGED <<raised, response>>
           ELSE IF mt = MANIFEST_V2
           THEN /\ pc' = "TRANSCODE"
                /\ UNCHANGED <<response_headers, raised, response>>
           ELSE IF mt = MANIFEST_LIST
           THEN /\ pc' = "SELECT_CHILD"
                /\ UNCHANGED <<response_headers, raised, response>>
           ELSE /\ Raise("TypeError")
                /\ UNCHANGED response_headers
    /\ UNCHANGED <<dbVars, request, repository_version, accepted_media_types, tag,
                   legacy, schema, build_calls>>

(***************************************************************************)
(* registry.py: _get_legacy_manifest (lines 256-263)                       *)
(***************************************************************************)
\* manifest_list.listed_manifests.all(): the children of the rows whose
\* image_manifest is the list, in row order.
RECURSIVE ListedFrom(_, _)
ListedFrom(l, i) ==
    IF i > Len(ManifestListManifest) THEN <<>>
    ELSE (IF ManifestListManifest[i].image_manifest = l
          THEN <<ManifestListManifest[i].manifest_list>> ELSE <<>>)
             \o ListedFrom(l, i + 1)

listed_manifests(l) == ListedFrom(l, 1)

\* manifest.manifest_lists.first(): the reverse relation of the field manifest_list,
\* i.e. every row that lists this manifest, whichever list the row belongs to;
\* first() takes the one with the least primary key.
manifest_lists_first(manifest) ==
    ManifestListManifest[CHOOSE i \in RowIds :
        /\ ManifestListManifest[i].manifest_list = manifest
        /\ \A j \in RowIds :
               ManifestListManifest[j].manifest_list = manifest => i <= j]

RECURSIVE ScanLegacy(_)
ScanLegacy(ml) ==
    IF ml = <<>> THEN None
    ELSE LET m == manifest_lists_first(Head(ml))
         IN  IF m.architecture # "amd64" \/ m.os # "linux"
             THEN ScanLegacy(Tail(ml))
             ELSE m.manifest_list

_get_legacy_manifest(t) == ScanLegacy(listed_manifests(t.tagged_manifest))

(***************************************************************************)
(* registry.py: _get_config_json, _get_manifest_json, _get_json            *)
(* (lines 266-279).  first() of no artifact is None and artifact.file      *)
(* raises AttributeError; json.loads of other bytes raises JSONDecodeError.*)
(***************************************************************************)
_get_json(artifact, json) ==
    [exc |-> IF artifact = "missing" THEN "AttributeError"
             ELSE IF artifact = "corrupt" THEN "JSONDecodeError"
             ELSE None,
     json |-> json]

_get_config_json(manifest) ==
    LET blob == Manifest[manifest].config_blob
    IN  IF blob = None
        THEN [exc |-> "AttributeError", json |-> [architecture |-> None]]
        ELSE _get_json(Blob[blob].artifact, [architecture |-> Blob[blob].architecture])

_get_manifest_json(manifest) ==
    _get_json(Manifest[manifest].artifact, [layers |-> Manifest[manifest].layers])

(***************************************************************************)
(* docker_convert.Converter_s2_to_s1.convert: the signed Schema-1 text.    *)
(* fsLayers lists the Schema-2 layers top of the stack first.              *)
(***************************************************************************)
RECURSIVE FsLayers(_)
FsLayers(layers) ==
    IF layers = <<>> THEN ""
    ELSE "{blobSum:" \o layers[Len(layers)] \o "}"
             \o FsLayers(SubSeq(layers, 1, Len(layers) - 1))

convert(manifest, config, namespace, repository, tagname) ==
    "{schemaVersion:1,name:" \o namespace \o "/" \o repository
        \o ",tag:" \o tagname
        \o ",architecture:" \o config.architecture
        \o ",fsLayers:[" \o FsLayers(manifest.layers)
        \o "],signatures:[jws]}"

\* The content identifier of a text: the hash of its bytes.
Sha256(text) == "sha256:hash(" \o text \o ")"

(***************************************************************************)
(* registry.py: Schema1ManifestBuilder.build (lines 292-306).  A Schema-2  *)
(* manifest document has no "digest" key: manifest.get("digest") is None.  *)
(***************************************************************************)
build(manifest, config, tagname, namespace, repository) ==
    [text |-> convert(manifest, config, namespace, repository, tagname),
     digest |-> IF Len(manifest.layers) > 0 THEN manifest.layers[1] ELSE None]

(***************************************************************************)
(* registry.py: _convert_manifest, manifest-list branch (lines 241-253)    *)
(***************************************************************************)
SelectChild ==
    /\ pc = "SELECT_CHILD"
    /\ LET child == _get_legacy_manifest(tag)
       IN  IF child = None
           THEN \* (None, None, None): get_tag raises PathNotResolved (line 171)
                /\ Raise("PathNotResolved")
                /\ UNCHANGED legacy
           ELSE /\ legacy' = child
                /\ pc' = "NEGOTIATE_CHILD"
                /\ UNCHANGED <<raised, response>>
    /\ UNCHANGED <<dbVars, request, repository_version, accepted_media_types, tag,
                   schema, response_headers, build_calls>>

ConvertedHeaders(digest) ==
       ("Content-Type" :> MANIFEST_V1_SIGNED)
    @@ ("Docker-Content-Digest" :> digest)
    @@ ("Docker-Distribution-API-Version" :> "registry/2.0")

NegotiateChild ==
    /\ pc = "NEGOTIATE_CHILD"
    /\ IF /\ Manifest[legacy].media_type = MANIFEST_V2
          /\ ~Contains(accepted_media_types, Manifest[legacy].media_type)
       THEN /\ pc' = "TRANSCODE"
            /\ UNCHANGED <<schema, response_headers>>
       ELSE \* return legacy, False, legacy.digest; get_tag lines 172-176
            /\ schema' = [kind |-> "Manifest", value |-> legacy]
            /\ response_headers' = ConvertedHeaders(Digest(legacy))
            /\ pc' = "DIRECT_DISPATCH"
    /\ UNCHANGED <<dbVars, request, repository_version, accepted_media_types, tag,
                   legacy, build_calls, raised, response>>

(***************************************************************************)
(* registry.py: _convert_manifest, the conversion itself (lines 234-240    *)
(* for a tagged Schema-2 manifest, 247-250 for a manifest list's child),   *)
(* and get_tag lines 170-175.                                              *)
(***************************************************************************)
Transcode ==
    /\ pc = "TRANSCODE"
    /\ LET source == IF legacy = None THEN tag.tagged_manifest ELSE legacy
           config == _get_config_json(source)
           manifest == _get_manifest_json(source)
           built == build(manifest.json, config.json, tag.name, "ignored", request.path)
       IN  IF config.exc # None
           THEN /\ Raise(config.exc)
                /\ UNCHANGED <<schema, response_headers, build_calls>>
           ELSE IF manifest.exc # None
           THEN /\ Raise(manifest.exc)
                /\ UNCHANGED <<schema, response_headers, build_calls>>
           ELSE /\ build_calls' = build_calls + 1
                \* line 240 returns the builder, line 250 the converted text
                /\ schema' = IF legacy = None
                             THEN [kind |-> "Builder", value |-> tag.name]
                             ELSE [kind |-> "Text", value |-> built.text]
                /\ response_headers' = ConvertedHeaders(built.digest)
                /\ pc' = "DISPATCH_CONVERTED"
                /\ UNCHANGED <<raised, response>>
    /\ UNCHANGED <<dbVars, request, repository_version, accepted_media_types, tag,
                   legacy>>

(***************************************************************************)
(* registry.py: dispatch_tag (lines 180-201)                               *)
(***************************************************************************)
\* The unit whose _artifacts are looked up: the Tag (its ContentArtifact holds the
\* tagged manifest's artifact, tag.py lines 16, 30-34) or the list's child.
DispatchTarget == IF schema.kind = "Manifest" THEN schema.value ELSE tag.tagged_manifest

DispatchTag ==
    /\ pc = "DIRECT_DISPATCH"
    /\ IF Manifest[DispatchTarget].artifact = "missing"
       THEN \* ArtifactNotFound(tag.name); a Manifest has no name: AttributeError
            Raise(IF schema.kind = "Manifest" THEN "AttributeError" ELSE "ArtifactNotFound")
       ELSE /\ response' = _dispatch(FileOf(DispatchTarget), response_headers)
            /\ pc' = "RESPOND"
            /\ UNCHANGED raised
    /\ UNCHANGED <<dbVars, request, repository_version, accepted_media_types, tag,
                   legacy, schema, response_headers, build_calls>>

(***************************************************************************)
(* registry.py: dispatch_converted_schema1 (lines 203-205).  web.Response  *)
(* accepts only a str as text.                                             *)
(***************************************************************************)
DispatchConvertedSchema1 ==
    /\ pc = "DISPATCH_CONVERTED"
    /\ IF schema.kind # "Text"
       THEN Raise("TypeError")
       ELSE /\ response' = [status |-> 200, headers |-> response_headers,
                            body |-> schema.value]
            /\ pc' = "RESPOND"
            /\ UNCHANGED raised
    /\ UNCHANGED <<dbVars, request, repository_version, accepted_media_types, tag,
                   legacy, schema, response_headers, build_calls>>

(***************************************************************************)
(* registry.py: get_by_digest (lines 207-230)                              *)
(***************************************************************************)
\* Handler._stream_content_artifact copies the remote's response headers; the
\* headers get_by_digest prepared are not handed to it.  The remote is a registry
\* (which sends the registry headers of the entry) or plain blob storage.
RemoteHeaders(headers) ==
    { headers @@ ("Docker-Distribution-API-Version" :> "registry/2.0"),
      ("Content-Type" :> "application/octet-stream") }

\* ContentArtifact rows of the version's content whose relative_path is the digest.
ByDigest(content, digest) ==
    {u \in content : u.kind \in {"Manifest", "Blob"} /\ Digest(u.ref) = digest}

UnitOf(u) == IF u.kind = "Manifest" THEN Manifest[u.ref] ELSE Blob[u.ref]

GetByDigest ==
    /\ pc = "IDLE"
    /\ \E path \in Repositories, digest \in RequestDigests :
        LET version == LatestVersion(path)
            found == ByDigest(ContentOf(version), digest)
        IN  /\ request' = [handler |-> "get_by_digest", path |-> path, tag_name |-> None,
                           digest |-> digest, raw_headers |-> <<>>]
            /\ repository_version' = version
            /\ accepted_media_types' = <<>>
            /\ tag' = NoTag
            /\ legacy' = None
            /\ schema' = NoSchema
            /\ build_calls' = 0
            /\ IF found = {}
               THEN /\ Raise("PathNotResolved")
                    /\ response_headers' = EmptyHeaders
               ELSE LET ca == CHOOSE u \in found : TRUE
                        headers == ("Content-Type" :> UnitOf(ca).media_type)
                                @@ ("Docker-Content-Digest" :> Digest(ca.ref))
                    IN  /\ response_headers' = headers
                        /\ IF UnitOf(ca).artifact # "missing"
                           THEN /\ response' = _dispatch(FileOf(ca.ref), headers)
                                /\ pc' = "RESPOND"
                                /\ raised' = None
                           ELSE \* Handler._stream_content_artifact (pulpcore): the
                                \* content is streamed from a remote, or no remote
                                \* serves it and HTTPNotFound is raised.
                                \/ /\ \E remote \in RemoteHeaders(headers) :
                                          response' = [status |-> 200,
                                                       headers |-> remote,
                                                       body |-> "stream:" \o digest]
                                   /\ pc' = "RESPOND"
                                   /\ raised' = None
                                \/ Raise("PathNotResolved")
    /\ UNCHANGED dbVars

(***************************************************************************)
(* serializers.py: TagOperationSerializer.validate (lines 198-219) and     *)
(* UnTagImageSerializer.validate (lines 263-296), run for a request to     *)
(* remove a tag.                                                           *)
(***************************************************************************)
\* Tag names of the untag requests.
UntagRequestNames == {"latest", "v2", "v2e", "absent"}

\* The request data: 'repository' and 'repository_version' are optional (None,
\* NoVersion when left out).
UntagRequestData ==
    [repository : Repositories \cup {None},
     repository_version : {LatestVersion(r) : r \in Repositories} \cup {NoVersion},
     tag : UntagRequestNames]

\* Ways validation ends without an unhandled exception.
Validated == {"VALID", "INVALID"}

\* RepositoryContent rows of a repository: the content of all of its versions.
RepositoryContent(repository) ==
    UNION {versions[repository][i] : i \in 1..Len(versions[repository])}

\* TagOperationSerializer.validate raises ValidationError (lines 212-215).
TagOperationSerializer_raises(data) ==
    data.repository = None /\ data.repository_version = NoVersion

\* TagOperationSerializer.validate: the data, with 'repository' filled in from the
\* repository version when it was left out.
TagOperationSerializer_validate(data) ==
    IF data.repository = None
    THEN [data EXCEPT !.repository = data.repository_version.repository]
    ELSE data

\* RepositoryContent.objects.filter(content__in=tagged_manifests, repository=...)
contents(tags, repository) ==
    {ManifestUnit(t.tagged_manifest) : t \in tags} \cap RepositoryContent(repository)

\* The result of UnTagImageSerializer.validate below the debugger call.
UnTagImageSerializer_validate(new_data) ==
    LET tags == manifest_tag_list(manifest_tags, new_data.tag)
    IN  IF Cardinality(tags) = 0 THEN "INVALID"
        ELSE IF Cardinality(contents(tags, new_data.repository)) = 0 THEN "INVALID"
        ELSE "VALID"

UnTagImageValidate ==
    /\ pc = "IDLE"
    /\ \E data \in UntagRequestData :
        LET new_data == TagOperationSerializer_validate(data)
            repository == new_data.repository
        IN  /\ request' = [handler |-> "untag", path |-> repository,
                           tag_name |-> data.tag, digest |-> None, raw_headers |-> <<>>]
            /\ IF TagOperationSerializer_raises(data)
               THEN /\ pc' = "INVALID"
                    /\ raised' = "ValidationError"
                    /\ response' = [status |-> 400, headers |-> EmptyHeaders,
                                    body |-> None]
               ELSE \* lines 276-277: pydevd_pycharm is imported and told to connect
                    \* to a debugger; without the package or without a listening
                    \* debugger the call raises, with both validation goes on.
                    \/ Raise("ImportError")
                    \/ /\ pc' = UnTagImageSerializer_validate(new_data)
                       /\ raised' = IF pc' = "INVALID" THEN "ValidationError" ELSE None
                       /\ response' = [status |-> IF pc' = "INVALID" THEN 400 ELSE 202,
                                       headers |-> EmptyHeaders, body |-> None]
    /\ UNCHANGED <<dbVars, repository_version, accepted_media_types, tag, legacy,
                   schema, response_headers, build_calls>>

(***************************************************************************)
(* The response leaves the server; the handler's frame is gone and the     *)
(* next request can be served.                                             *)
(***************************************************************************)
SendResponse ==
    /\ pc \in Terminal \cup Validated
    /\ pc' = "IDLE"
    /\ request' = NoRequest
    /\ repository_version' = NoVersion
    /\ accepted_media_types' = <<>>
    /\ tag' = NoTag
    /\ legacy' = None
    /\ schema' = NoSchema
    /\ response_headers' = EmptyHeaders
    /\ build_calls' = 0
    /\ raised' = None
    /\ response' = NoResponse
    /\ UNCHANGED dbVars

(***************************************************************************)
(* The system                                                              *)
(***************************************************************************)
Init ==
    /\ versions = [r \in Repositories |-> <<InitialContent[r]>>]
    /\ manifest_tags = UNION {InitialTags[r] : r \in Repositories}
    /\ pc = "IDLE"
    /\ request = NoRequest
    /\ repository_version = NoVersion
    /\ accepted_media_types = <<>>
    /\ tag = NoTag
    /\ legacy = None
    /\ schema = NoSchema
    /\ response_headers = EmptyHeaders
    /\ build_calls = 0
    /\ raised = None
    /\ response = NoResponse

Next ==
    \/ TagImage
    \/ UntagImage
    \/ GetTagResolve
    \/ GetTagNegotiate
    \/ SelectChild
    \/ NegotiateChild
    \/ Transcode
    \/ DispatchTag
    \/ DispatchConvertedSchema1
    \/ GetByDigest
    \/ UnTagImageValidate
    \/ SendResponse

Spec == Init /\ [][Next]_vars

(***************************************************************************)
(* Vocabulary of the properties                                            *)
(***************************************************************************)
\* The request in flight is a get_tag request whose tag was resolved.
TagResolved == request.handler = "get_tag" /\ tag # NoTag

TaggedManifest == tag.tagged_manifest

TaggedMediaType == Manifest[TaggedManifest].media_type

\* mt is one of the media types of the Accept headers (written out here, so that
\* the properties do not depend on how the handler tests membership).
Accepts(mt) == mt \in {accepted_media_types[i] : i \in DOMAIN accepted_media_types}

\* The platform descriptors of list l itself name child c as amd64 / linux.
ListsAsAmd64Linux(l, c) ==
    \E i \in RowIds :
        /\ ManifestListManifest[i].image_manifest = l
        /\ ManifestListManifest[i].manifest_list = c
        /\ ManifestListManifest[i].architecture = "amd64"
        /\ ManifestListManifest[i].os = "linux"

HasAmd64LinuxChild(l) == \E c \in Manifests : ListsAsAmd64Linux(l, c)

\* The request took the conversion path: a tagged Schema-2 manifest that is not
\* accepted, or a list's selected child that is Schema-2 and not accepted.
ConversionPath ==
    /\ TagResolved
    /\ ~Accepts(MANIFEST_V2)
    /\ \/ TaggedMediaType = MANIFEST_V2
       \/ /\ TaggedMediaType = MANIFEST_LIST
          /\ ~Accepts(MANIFEST_LIST)
          /\ legacy # None
          /\ Manifest[legacy].media_type = MANIFEST_V2

ConversionSource == IF legacy = None THEN TaggedManifest ELSE legacy

\* Both inputs of the conversion are local files that hold JSON.
ConversionInputsOk ==
    /\ Manifest[ConversionSource].artifact = "ok"
    /\ Manifest[ConversionSource].config_blob # None
    /\ Blob[Manifest[ConversionSource].config_blob].artifact = "ok"

\* What the transcoder returns for the request's manifest and config.
TranscoderText ==
    convert([layers |-> Manifest[ConversionSource].layers],
            [architecture |-> Blob[Manifest[ConversionSource].config_blob].architecture],
            "ignored", request.path, tag.name)

(***************************************************************************)
(* C1: a get_tag request whose tag resolves to a Schema-1 manifest (signed *)
(* or unsigned) is served directly, whatever the accepted types are: the   *)
(* request never converts, and it ends with the stored artifact and        *)
(* Content-Type = the signed Schema-1 media type.                          *)
(***************************************************************************)
C1_Schema1ServedDirectly ==
    (TagResolved /\ TaggedMediaType \in {MANIFEST_V1, MANIFEST_V1_SIGNED}) =>
        /\ pc \in {"NEGOTIATE", "DIRECT_DISPATCH", "RESPOND"}
        /\ build_calls = 0
        /\ pc = "RESPOND" =>
              /\ response.status = 200
              /\ response.body = "file:" \o FileOf(TaggedManifest)
              /\ response.headers["Content-Type"] = MANIFEST_V1_SIGNED

(***************************************************************************)
(* C2 as stated: for a tag that resolves to a Schema-2 manifest of media   *)
(* type M, if M is accepted the tag is dispatched directly with            *)
(* Content-Type = M and Docker-Content-Digest = the manifest's digest and  *)
(* the transcoder is never called; if M is not accepted the transcoder has *)
(* been called exactly once when the request ends.                         *)
(***************************************************************************)
C2_DirectWhenAccepted ==
    /\ pc \in {"DIRECT_DISPATCH", "RESPOND", "FAULT"}
    /\ schema = NoSchema
    /\ build_calls = 0
    /\ response_headers["Content-Type"] = TaggedMediaType
    /\ response_headers["Docker-Content-Digest"] = Digest(TaggedManifest)
    /\ pc = "RESPOND" =>
          /\ response.body = "file:" \o FileOf(TaggedManifest)
          /\ response.headers["Content-Type"] = TaggedMediaType
          /\ response.headers["Docker-Content-Digest"] = Digest(TaggedManifest)

C3_BodyIsTranscoderText ==
    (ConversionPath /\ build_calls = 1 /\ pc \in Terminal) =>
        /\ pc = "RESPOND"
        /\ response.body = TranscoderText

(***************************************************************************)
(* C4: a converted response reports as Docker-Content-Digest the content   *)
(* identifier of the converted document, the hash of its signed bytes.     *)
(***************************************************************************)
C4_DigestOfConvertedDocument ==
    (ConversionPath /\ pc = "RESPOND") =>
        response.headers["Docker-Content-Digest"] = Sha256(response.body)

(***************************************************************************)
(* C5: when the conversion fails because the manifest's or the config      *)
(* blob's local artifact is missing or does not hold JSON, the request     *)
(* ends as NotFound (PathNotResolved, 404), never as a fault (500).        *)
(***************************************************************************)
C5_ConversionFailureIsNotFound ==
    (ConversionPath /\ ~ConversionInputsOk /\ pc \in Terminal) =>
        /\ pc = "NOT_FOUND"
        /\ raised = "PathNotResolved"
        /\ response.status = 404

(***************************************************************************)
(* C6: a get_tag request whose tag resolves to a manifest list that is not *)
(* accepted and has no amd64 / linux child ends as NotFound (404): no      *)
(* child of another platform is served and no fault is raised.             *)
(***************************************************************************)
C6_NoPlatformChildIsNotFound ==
    (/\ TagResolved
     /\ TaggedMediaType = MANIFEST_LIST
     /\ ~Accepts(MANIFEST_LIST)
     /\ ~HasAmd64LinuxChild(TaggedManifest)
     /\ pc \in Terminal) =>
        /\ pc = "NOT_FOUND"
        /\ raised = "PathNotResolved"
        /\ response.status = 404

(***************************************************************************)
(* C7: once the child of manifest list L has been selected, the result is  *)
(* a child that L's own platform descriptors name as amd64 / linux, and it *)
(* is NotFound exactly when L has no such child.                           *)
(***************************************************************************)
C7_SelectedChildMatchesPlatform ==
    (/\ TagResolved
     /\ TaggedMediaType = MANIFEST_LIST
     /\ ~Accepts(MANIFEST_LIST)
     /\ pc \notin {"NEGOTIATE", "SELECT_CHILD"}) =>
        IF HasAmd64LinuxChild(TaggedManifest)
        THEN legacy # None /\ ListsAsAmd64Linux(TaggedManifest, legacy)
        ELSE legacy = None /\ pc = "NOT_FOUND"

(***************************************************************************)
(* C8: for a tag that resolves to a manifest list that is not accepted,    *)
(* the Schema-2 rule applies to the selected child: a Schema-2 child whose *)
(* media type is accepted is served directly, without conversion, with     *)
(* Content-Type = the child's media type and Docker-Content-Digest = the   *)
(* child's digest; one whose media type is not accepted is converted.      *)
(***************************************************************************)
C8_Schema2RuleOnChild ==
    (/\ TagResolved
     /\ TaggedMediaType = MANIFEST_LIST
     /\ ~Accepts(MANIFEST_LIST)
     /\ legacy # None
     /\ Manifest[legacy].media_type = MANIFEST_V2
     /\ pc # "NEGOTIATE_CHILD") =>
        IF Accepts(MANIFEST_V2)
        THEN /\ build_calls = 0
             /\ pc \in {"DIRECT_DISPATCH"} \cup Terminal
             /\ pc = "RESPOND" =>
                   /\ response.body = "file:" \o FileOf(legacy)
                   /\ response.headers["Content-Type"] = Manifest[legacy].media_type
                   /\ response.headers["Docker-Content-Digest"] = Digest(legacy)
        ELSE /\ pc \in {"TRANSCODE", "DISPATCH_CONVERTED"} \cup Terminal
             /\ pc = "RESPOND" => build_calls = 1

(***************************************************************************)
(* C9: when a content entry was resolved (by tag in get_tag, by digest in  *)
(* get_by_digest) and the entry to be served has no local artifact, the    *)
(* request ends with 404: not with a fault and not with a success.         *)
(***************************************************************************)
\* The entry the handler was about to serve from storage has no local artifact.
ServedEntryHasNoArtifact ==
    /\ response_headers # EmptyHeaders
    /\ \/ /\ request.handler = "get_tag"
          /\ schema.kind \in {None, "Manifest"}
          /\ Manifest[DispatchTarget].artifact = "missing"
       \/ /\ request.handler = "get_by_digest"
          /\ \E u \in ByDigest(ContentOf(repository_version), request.digest) :
                 UnitOf(u).artifact = "missing"

C9_NoArtifactIsNotFound ==
    (ServedEntryHasNoArtifact /\ pc \in Terminal) =>
        /\ pc = "NOT_FOUND"
        /\ response.status = 404

(***************************************************************************)
(* C10: every version of every repository holds at most one tag per name,  *)
(* and the lookup of get_tag by (repository version, name) never matches   *)
(* several tags.                                                           *)
(***************************************************************************)
UniqueTagNames(content) ==
    \A t1 \in TagsOf(content), t2 \in TagsOf(content) : t1.name = t2.name => t1 = t2

C10_TagNamesUnique ==
    /\ \A r \in Repositories : \A i \in 1..Len(versions[r]) :
           UniqueTagNames(versions[r][i])
    /\ \A r \in Repositories, n \in RequestTagNames :
           Cardinality(TagsNamed(Latest(r), n)) <= 1
    /\ raised # "MultipleObjectsReturned"

\* A name was moved to another manifest by tag_image, and get_tag resolved it.
C10_Witness ==
    /\ Len(versions["r1"]) > 1
    /\ MkTag("latest", "ml1") \in TagsOf(versions["r1"][1])
    /\ request.handler = "get_tag"
    /\ request.path = "r1"
    /\ tag = MkTag("latest", "m_v2")
    /\ pc = "RESPOND"

(***************************************************************************)
(* C11: tag_image(m, t, R) appends to R a version whose content is the     *)
(* previous latest content, minus every tag named t that points to a       *)
(* manifest other than m, plus the tag (t -> m); every entry that is not a *)
(* tag named t is carried over.                                            *)
(***************************************************************************)
NewestOf(r) == versions'[r][Len(versions'[r])]

C11_TagImageContent ==
    [][\A m \in TaskManifests, t \in TaskTagNames, r \in Repositories :
          tag_image(m, t, r) =>
             LET old == Latest(r)
                 moved == {u \in old : u.kind = "Tag" /\ u.name = t /\ u.ref # m}
             IN  /\ Len(versions'[r]) = Len(versions[r]) + 1
                 /\ NewestOf(r) = (old \ moved) \cup {TagUnit(MkTag(t, m))}
                 /\ \A u \in old : ~(u.kind = "Tag" /\ u.name = t) => u \in NewestOf(r)
                 /\ \A u \in NewestOf(r) :
                        ~(u.kind = "Tag" /\ u.name = t) => u \in old]_vars

\* tag_image moved the name "latest" of r1 from the manifest list to m_v2.
C11_Witness ==
    /\ Len(versions["r1"]) = 2
    /\ TagUnit(MkTag("latest", "ml1")) \in versions["r1"][1]
    /\ TagUnit(MkTag("latest", "ml1")) \notin versions["r1"][2]
    /\ TagUnit(MkTag("latest", "m_v2")) \in versions["r1"][2]
    /\ Cardinality(versions["r1"][2]) = Cardinality(versions["r1"][1])

(***************************************************************************)
(* C12: tag_image(m, t, R) on a repository whose latest version already    *)
(* holds the tag (t -> m) creates no tag object and appends a version with *)
(* the same content; hence running it twice gives the content of running   *)
(* it once.                                                                *)
(***************************************************************************)
C12_TagImageIdempotent ==
    [][\A m \in TaskManifests, t \in TaskTagNames, r \in Repositories :
          (tag_image(m, t, r) /\ TagUnit(MkTag(t, m)) \in Latest(r)) =>
             /\ manifest_tags' = manifest_tags
             /\ NewestOf(r) = Latest(r)]_vars

\* tag_image ran twice on r1 with the same manifest and name.
C12_Witness ==
    /\ Len(versions["r1"]) = 3
    /\ TagUnit(MkTag("latest", "m_v2")) \notin versions["r1"][1]
    /\ TagUnit(MkTag("latest", "m_v2")) \in versions["r1"][2]
    /\ versions["r1"][3] = versions["r1"][2]

(***************************************************************************)
(* C13: untag_image(t, R) appends to R a version with no tag named t and   *)
(* with every other entry of the previous latest version; the earlier      *)
(* versions of R and the versions of the other repositories stay as they   *)
(* are.                                                                    *)
(***************************************************************************)
C13_UntagImageFrame ==
    [][\A t \in TaskTagNames, r \in Repositories :
          untag_image(t, r) =>
             LET old == Latest(r)
             IN  /\ Len(versions'[r]) = Len(versions[r]) + 1
                 /\ \A u \in NewestOf(r) : ~(u.kind = "Tag" /\ u.name = t)
                 /\ NewestOf(r) = {u \in old : ~(u.kind = "Tag" /\ u.name = t)}
                 /\ \A i \in 1..Len(versions[r]) : versions'[r][i] = versions[r][i]
                 /\ \A q \in Repositories \ {r} : versions'[q] = versions[q]]_vars

\* untag_image removed the name "latest" from r2 and nothing else.
C13_Witness ==
    /\ Len(versions["r2"]) = 2
    /\ Len(versions["r1"]) = 1
    /\ TagsNamed(versions["r2"][1], "latest") # {}
    /\ TagsNamed(versions["r2"][2], "latest") = {}
    /\ Cardinality(versions["r2"][2]) = Cardinality(versions["r2"][1]) - 1

(***************************************************************************)
(* C14: validation of an untag request ends with a validation error        *)
(* whenever the repository holds no tag of the requested name, also when a *)
(* manifest tagged with that name elsewhere is content of the repository;  *)
(* it passes only if the tag is in the repository.  (Stated for the        *)
(* validations that run to their end.)                                     *)
(***************************************************************************)
TagInRepository(name, repository) == TagsNamed(Latest(repository), name) # {}

C14_UntagValidationRejectsAbsentTag ==
    (request.handler = "untag" /\ request.path # None /\ pc \in Validated) =>
        /\ pc = "VALID" => TagInRepository(request.tag_name, request.path)
        /\ ~TagInRepository(request.tag_name, request.path) =>
               (pc = "INVALID" /\ raised = "ValidationError")

(***************************************************************************)
(* C15: a get_tag request for a name, and a get_by_digest request for a    *)
(* digest, that the served repository version does not hold ends as        *)
(* NotFound (404), whatever other repositories and other versions of the   *)
(* same repository hold.                                                   *)
(***************************************************************************)
ServedContent == versions[repository_version.repository][repository_version.number]

NameServed ==
    \E u \in ServedContent : u.kind = "Tag" /\ u.name = request.tag_name

DigestServed ==
    \E u \in ServedContent : u.kind # "Tag" /\ Digest(u.ref) = request.digest

C15_ResolutionScopedToVersion ==
    /\ (request.handler = "get_tag" /\ ~NameServed) =>
           (pc = "NOT_FOUND" /\ response.status = 404)
    /\ (request.handler = "get_by_digest" /\ ~DigestServed) =>
           (pc = "NOT_FOUND" /\ response.status = 404)

\* The version made by untag_image is served: the name its predecessor holds is
\* not found.
C15_Witness ==
    /\ request.handler = "get_tag"
    /\ request.path = "r1"
    /\ request.tag_name = "latest"
    /\ repository_version.number = 2
    /\ TagsNamed(versions["r1"][1], "latest") # {}
    /\ ~NameServed
    /\ pc = "NOT_FOUND"

(***************************************************************************)
(* C16: every successful response to a manifest or blob request carries    *)
(* the headers Content-Type, Docker-Content-Digest and                     *)
(* Docker-Distribution-API-Version, on every path.                         *)
(***************************************************************************)
RequiredHeaders ==
    {"Content-Type", "Docker-Content-Digest", "Docker-Distribution-API-Version"}

C16_RequiredHeadersOnEveryResponse ==
    (request.handler \in {"get_tag", "get_by_digest"} /\ pc = "RESPOND") =>
        /\ response.status = 200
        /\ RequiredHeaders \subseteq DOMAIN response.headers

(***************************************************************************)
(* C17: a manifest request moves through RESOLVE -> NEGOTIATE ->           *)
(* {DIRECT_DISPATCH | SELECT_CHILD -> NEGOTIATE_CHILD -> {DIRECT_DISPATCH  *)
(* | TRANSCODE}} -> RESPOND and ends in RESPOND or NOT_FOUND; it is never  *)
(* in another terminal state, for every stored media type and every        *)
(* accepted-types list.                                                    *)
(***************************************************************************)
RequestStates ==
    {"NEGOTIATE", "DIRECT_DISPATCH", "SELECT_CHILD", "NEGOTIATE_CHILD", "TRANSCODE",
     "DISPATCH_CONVERTED", "RESPOND", "NOT_FOUND"}

C17_EndsInRespondOrNotFound ==
    request.handler \in {"get_tag", "get_by_digest"} =>
        /\ pc \in RequestStates
        /\ raised \in {None, "PathNotResolved"}
        /\ pc = "RESPOND" <=> response.status = 200
        /\ pc = "NOT_FOUND" <=> response.status = 404

====
